---- MODULE Spec2Model ----
(***************************************************************************)
(* Iris measurement orchestration: result-table naming, the prober         *)
(* watcher and cancellation, measurement submission, probing-rate capping, *)
(* the per-agent parameter view and its callers, the paginated results     *)
(* read, targets file verification and the info endpoints.                 *)
(***************************************************************************)
EXTENDS Integers, Sequences, FiniteSets, TLC

VARIABLES
    \* -- result table naming (iris/commons/database.py)
    uuid_m,          \* measurement_uuid handed to forge_table_name
    uuid_a,          \* agent_uuid handed to forge_table_name
    table_name,      \* value returned by forge_table_name
    parsed,          \* value returned by parse_table_name
    name_pc          \* "start" -> "forged" -> "parsed"

VARIABLES
    \* -- watcher and cancellation (iris/agent/prober.py, iris/api/measurements.py)
    redis,           \* per agent: TRUE when the watcher was given a redis client
    measurement_state, \* the liveness key of the measurement; None when deleted
    agent_state,     \* stored AgentSpecific.state of each agent
    end_time,        \* stored Measurement.end_time; None until stamped
    alive,           \* per agent: process.is_alive()
    exited,          \* per agent: the process ended on its own
    kills,           \* per agent: number of process.kill() calls
    kill_found,      \* per agent: what kill() found, "alive" or "exited"
    wpc,             \* per agent: position of the watcher coroutine
    wstate,          \* per agent: the watcher's local measurement_state
    wret,            \* per agent: the watcher's return value, "True" or "False"
    sleeps,          \* per agent: refresh sleeps completed since the key was removed
    cuser,           \* per cancel request: the authenticated user
    cpc,             \* per cancel request: position in delete_measurement
    cstate,          \* per cancel request: the local variable state
    cdeleted,        \* per cancel request: how its delete call found the key
    cresp            \* per cancel request: the response

VARIABLES
    \* -- measurement submission (iris/api/measurements.py, post_measurement)
    active,          \* agents currently live in the registry
    req_tool,        \* measurement.tool
    req_protocol,    \* measurement.tool_parameters.protocol
    req_agents,      \* measurement.agents: sequence of [uuid, protocol]
    ppc,             \* position in post_measurement
    file_found,      \* outcome of storage.get_file_no_retry
    n_prefixes,      \* count_prefixes(targets)
    user_quota,      \* user["quota"]
    max_round,       \* measurement.tool_parameters.max_round
    registry_read,   \* TRUE once active_agents was read
    active_agents,   \* the local list active_agents
    presp,           \* the response of post_measurement
    sent             \* messages handed to hook.send

submitVars == <<active, req_tool, req_protocol, req_agents, ppc, file_found,
                n_prefixes, user_quota, max_round, registry_read, active_agents,
                presp, sent>>

VARIABLES
    \* -- probing (iris/agent/prober.py, probe)
    probing_rate,    \* requested rate: <<>> when None, else <<rate>>
    AGENT_MAX_PROBING_RATE,
    round_number,
    AGENT_PROBER_EXCLUDE_PATH,  \* None, or the path of the exclusion file
    config,          \* the prober.Config handed to the engine
    engine_input,    \* what prober.probe was given: "generator" or "probes_file"
    generator_calls, \* calls of probe_generator_by_flow
    probe_pc         \* "start" -> "configured" -> "done"

VARIABLES
    \* -- parameter view (iris/commons/dataclasses.py)
    agent_uuid_arg,  \* the agent_uuid argument of ParametersDataclass
    measurement_parameters,
    physical_parameters,
    specific_parameters,
    dataclass,       \* self._dataclass
    looked_up,       \* the last attribute asked of the view
    lookup,          \* what __getattr__ gave for it
    params_pc        \* "start" -> "built"

VARIABLES
    \* -- paginated results read (iris/api/measurements.py, get_measurement_results)
    res_user,        \* the authenticated user of the request
    res_stored,      \* stored AgentSpecific.state of the (measurement, agent) pair; None: no row
    table_exists,    \* the result table of the pair exists
    table_rows,      \* number of rows in that table
    res_offset,      \* query parameter offset
    res_limit,       \* query parameter limit
    res_pc,          \* position in get_measurement_results
    agent_specific_info, \* the local agent_specific_info: the state of the row read
    res_resp         \* the response

VARIABLES
    \* -- targets file verification (iris/api/targets.py, verify_target_file)
    targets_file,    \* the uploaded file: a sequence of lines, each a sequence of fields
    line_no,         \* lines inspected so far
    tf_pc,           \* "start" -> "lines" -> "done"
    tf_result        \* the value returned, "True" or "False"

VARIABLES
    \* -- callers of the parameter view (iris/commons/dataclasses.py, dict)
    returned_map     \* the object the caller got from dict(); None before the call

VARIABLES
    \* -- info endpoints (iris/api/measurements.py, get_measurement_by_uuid, get_measurements)
    iuser,           \* the authenticated user of the request
    ipc,             \* position in get_measurement_by_uuid
    istate,          \* the local variable state read from redis
    ireported,       \* measurement["state"] as reported
    iagents,         \* the reported state of each agent
    iresp,           \* the response status of get_measurement_by_uuid
    lstate,          \* get_measurements: the local variable state read from redis
    lreported        \* get_measurements: the state reported in the list

resultsVars == <<res_user, res_stored, table_exists, table_rows, res_offset,
                 res_limit, res_pc, agent_specific_info, res_resp>>

targetsVars == <<targets_file, line_no, tf_pc, tf_result>>

mutVars == <<returned_map>>

infoVars == <<iuser, ipc, istate, ireported, iagents, iresp, lstate, lreported>>

extraVars == <<resultsVars, targetsVars, mutVars, infoVars>>

probeVars == <<probing_rate, AGENT_MAX_PROBING_RATE, round_number,
               AGENT_PROBER_EXCLUDE_PATH, config, engine_input, generator_calls,
               probe_pc>>

paramVars == <<agent_uuid_arg, measurement_parameters, physical_parameters,
               specific_parameters, dataclass, looked_up, lookup, params_pc>>

nameVars == <<uuid_m, uuid_a, table_name, parsed, name_pc>>

procVars == <<alive, exited, kills, kill_found>>

watchVars == <<wpc, wstate, wret, sleeps>>

cancelVars == <<cuser, cpc, cstate, cdeleted, cresp>>

storeVars == <<agent_state, end_time>>

orchVars == <<redis, measurement_state, storeVars, procVars, watchVars, cancelVars>>

vars == <<nameVars, orchVars, submitVars, probeVars, paramVars, extraVars>>

None == "None"

(***************************************************************************)
(* Strings are sequences of one-character strings.                         *)
(***************************************************************************)
MaxUuidLen == 3

HexChars == {"a", "1"}

Chars == HexChars \cup {"-", "_"}

RECURSIVE StringsUpTo(_)
StringsUpTo(n) ==
    IF n = 0 THEN {<<>>}
    ELSE LET shorter == StringsUpTo(n - 1)
         IN  shorter \cup {Append(s, c) : s \in {t \in shorter : Len(t) = n - 1}, c \in Chars}

Strings == StringsUpTo(MaxUuidLen)

\* A UUID string: groups of hexadecimal digits separated by single hyphens.
IsUUID(s) ==
    /\ Len(s) > 0
    /\ \A i \in 1..Len(s) : s[i] \in HexChars \cup {"-"}
    /\ s[1] # "-"
    /\ s[Len(s)] # "-"
    /\ \A i \in 1..(Len(s) - 1) : ~(s[i] = "-" /\ s[i + 1] = "-")

\* str.replace(old, new) for one-character old and new.
Replace(s, old, new) == [i \in 1..Len(s) |-> IF s[i] = old THEN new ELSE s[i]]

\* str.split("__"): leftmost, non-overlapping occurrences of the separator.
RECURSIVE SplitFrom(_, _, _, _)
SplitFrom(s, i, cur, acc) ==
    IF i > Len(s) THEN Append(acc, cur)
    ELSE IF i < Len(s) /\ s[i] = "_" /\ s[i + 1] = "_"
         THEN SplitFrom(s, i + 2, <<>>, Append(acc, cur))
         ELSE SplitFrom(s, i + 1, Append(cur, s[i]), acc)

Split(s) == SplitFrom(s, 1, <<>>, <<>>)

ResultsPrefix == <<"r", "e", "s", "u", "l", "t", "s">>

forge_table_name(measurement_uuid, agent_uuid) ==
    LET sanitized_measurement_uuid == Replace(measurement_uuid, "-", "_")
        sanitized_agent_uuid == Replace(agent_uuid, "-", "_")
    IN  ResultsPrefix \o (<<"_", "_">> \o sanitized_measurement_uuid)
                      \o (<<"_", "_">> \o sanitized_agent_uuid)

\* A parse that takes the two fields in the wrong order.
parse_table_name_swapped(t) ==
    LET table_name_split == Split(t)
    IN  [measurement_uuid |-> Replace(table_name_split[3], "_", "-"),
         agent_uuid |-> Replace(table_name_split[2], "_", "-")]

parse_table_name(t) ==
    LET table_name_split == Split(t)
    IN  [measurement_uuid |-> Replace(table_name_split[2], "_", "-"),
         agent_uuid |-> Replace(table_name_split[3], "_", "-")]

(***************************************************************************)
(* Watcher, supervised process, cancel endpoint.  One measurement, owned   *)
(* by Owner, is running one probing process per agent.                     *)
(***************************************************************************)
NumAgents == 2

Agents == 1..NumAgents

\* Two cancel requests in flight at once are what the check-then-delete race needs.
Requests == {"r1", "r2"}

Owner == "alice"

Users == {"alice", "bob"}

NotFound == "404 Measurement not found"

AlreadyFinished == "404 Measurement already finished"

Canceled == "canceled"

IdleOrch ==
    /\ redis = <<>>
    /\ measurement_state = None
    /\ agent_state = <<>>
    /\ end_time = None
    /\ alive = <<>>
    /\ exited = <<>>
    /\ kills = <<>>
    /\ kill_found = <<>>
    /\ wpc = <<>>
    /\ wstate = <<>>
    /\ wret = <<>>
    /\ sleeps = <<>>
    /\ cuser = <<>>
    /\ cpc = <<>>
    /\ cstate = <<>>
    /\ cdeleted = <<>>
    /\ cresp = <<>>

InitOrch ==
    /\ redis \in [Agents -> BOOLEAN]
    /\ measurement_state = "ongoing"
    /\ agent_state = [a \in Agents |-> "ongoing"]
    /\ end_time = None
    /\ alive = [a \in Agents |-> TRUE]
    /\ exited = [a \in Agents |-> FALSE]
    /\ kills = [a \in Agents |-> 0]
    /\ kill_found = [a \in Agents |-> None]
    /\ wpc = [a \in Agents |-> "while"]
    /\ wstate = [a \in Agents |-> "unread"]
    /\ wret = [a \in Agents |-> None]
    /\ sleeps = [a \in Agents |-> 0]
    /\ cuser \in [Requests -> Users]
    /\ cpc = [r \in Requests |-> "get"]
    /\ cstate = [r \in Requests |-> "unread"]
    /\ cdeleted = [r \in Requests |-> None]
    /\ cresp = [r \in Requests |-> None]

\* The probing process finishes its round by itself.
ProcessExit(a) ==
    /\ alive[a]
    /\ alive' = [alive EXCEPT ![a] = FALSE]
    /\ exited' = [exited EXCEPT ![a] = TRUE]
    /\ UNCHANGED <<extraVars, redis, measurement_state, storeVars, kills, kill_found,
                   watchVars, cancelVars, nameVars, submitVars, probeVars, paramVars>>

\* A watcher that polls the key even when it was given no redis client.
WatcherWhileAlwaysPolls(a) ==
    /\ wpc[a] = "while"
    /\ IF alive[a]
       THEN /\ wpc' = [wpc EXCEPT ![a] = "poll"]
            /\ wret' = wret
       ELSE /\ wpc' = [wpc EXCEPT ![a] = "done"]
            /\ wret' = [wret EXCEPT ![a] = "True"]
    /\ UNCHANGED <<extraVars, redis, measurement_state, storeVars, procVars, wstate, sleeps,
                   cancelVars, nameVars, submitVars, probeVars, paramVars>>

\* A watcher that keeps looping after the process has ended.
WatcherWhileNoExitCheck(a) ==
    /\ wpc[a] = "while"
    /\ wpc' = [wpc EXCEPT ![a] = IF redis[a] THEN "poll" ELSE "sleep"]
    /\ wret' = wret
    /\ UNCHANGED <<extraVars, redis, measurement_state, storeVars, procVars, wstate, sleeps,
                   cancelVars, nameVars, submitVars, probeVars, paramVars>>

\* while process.is_alive(): ... return True
WatcherWhile(a) ==
    /\ wpc[a] = "while"
    /\ IF alive[a]
       THEN /\ wpc' = [wpc EXCEPT ![a] = IF redis[a] THEN "poll" ELSE "sleep"]
            /\ wret' = wret
       ELSE /\ wpc' = [wpc EXCEPT ![a] = "done"]
            /\ wret' = [wret EXCEPT ![a] = "True"]
    /\ UNCHANGED <<extraVars, redis, measurement_state, storeVars, procVars, wstate, sleeps,
                   cancelVars, nameVars, submitVars, probeVars, paramVars>>

\* measurement_state = await redis.get_measurement_state(measurement_uuid)
WatcherPoll(a) ==
    /\ wpc[a] = "poll"
    /\ wstate' = [wstate EXCEPT ![a] = measurement_state]
    /\ wpc' = [wpc EXCEPT ![a] = "decide"]
    /\ UNCHANGED <<extraVars, redis, measurement_state, storeVars, procVars, wret, sleeps,
                   cancelVars, nameVars, submitVars, probeVars, paramVars>>

\* A watcher that reports cancellation without killing the process.
WatcherDecideNoKill(a) ==
    /\ wpc[a] = "decide"
    /\ IF wstate[a] = None
       THEN /\ wret' = [wret EXCEPT ![a] = "False"]
            /\ wpc' = [wpc EXCEPT ![a] = "done"]
       ELSE /\ wpc' = [wpc EXCEPT ![a] = "sleep"]
            /\ wret' = wret
    /\ UNCHANGED <<extraVars, redis, measurement_state, storeVars, procVars, wstate, sleeps,
                   cancelVars, nameVars, submitVars, probeVars, paramVars>>

\* if measurement_state is None: process.kill(); return False
WatcherDecide(a) ==
    /\ wpc[a] = "decide"
    /\ IF wstate[a] = None
       THEN /\ kills' = [kills EXCEPT ![a] = @ + 1]
            /\ kill_found' = [kill_found EXCEPT ![a] = IF alive[a] THEN "alive" ELSE "exited"]
            /\ alive' = [alive EXCEPT ![a] = FALSE]
            /\ wret' = [wret EXCEPT ![a] = "False"]
            /\ wpc' = [wpc EXCEPT ![a] = "done"]
       ELSE /\ wpc' = [wpc EXCEPT ![a] = "sleep"]
            /\ UNCHANGED <<extraVars, kills, kill_found, alive, wret>>
    /\ UNCHANGED <<extraVars, redis, measurement_state, storeVars, exited, wstate, sleeps,
                   cancelVars, nameVars, submitVars, probeVars, paramVars>>

\* await asyncio.sleep(settings.WORKER_STOPPER_REFRESH)
WatcherSleep(a) ==
    /\ wpc[a] = "sleep"
    /\ wpc' = [wpc EXCEPT ![a] = "while"]
    /\ sleeps' = [sleeps EXCEPT ![a] =
                    IF redis[a] /\ measurement_state = None THEN @ + 1 ELSE @]
    /\ UNCHANGED <<extraVars, redis, measurement_state, storeVars, procVars, wstate, wret,
                   cancelVars, nameVars, submitVars, probeVars, paramVars>>

\* A lookup that gives the row to any user.
MeasurementsGetAnyUser(user) == "row"

\* DatabaseMeasurements.get(user, uuid): the row, when this user owns it.
MeasurementsGet(user) == IF user = Owner THEN "row" ELSE None

\* measurement_info = await DatabaseMeasurements(...).get(user, measurement_uuid)
CancelGet(r) ==
    /\ cpc[r] = "get"
    /\ IF MeasurementsGet(cuser[r]) = None
       THEN /\ cresp' = [cresp EXCEPT ![r] = NotFound]
            /\ cpc' = [cpc EXCEPT ![r] = "done"]
       ELSE /\ cpc' = [cpc EXCEPT ![r] = "state"]
            /\ cresp' = cresp
    /\ UNCHANGED <<extraVars, redis, measurement_state, storeVars, procVars, watchVars,
                   cuser, cstate, cdeleted, nameVars, submitVars, probeVars, paramVars>>

\* A state check that lets a cancel through when the key is already absent.
CancelStateNoRaise(r) ==
    /\ cpc[r] = "state"
    /\ cstate' = [cstate EXCEPT ![r] = measurement_state]
    /\ cpc' = [cpc EXCEPT ![r] = "delete"]
    /\ UNCHANGED <<extraVars, redis, measurement_state, storeVars, procVars, watchVars,
                   cuser, cdeleted, cresp, nameVars, submitVars, probeVars, paramVars>>

\* state = await redis.get_measurement_state(measurement_uuid)
CancelState(r) ==
    /\ cpc[r] = "state"
    /\ cstate' = [cstate EXCEPT ![r] = measurement_state]
    /\ IF measurement_state = None
       THEN /\ cresp' = [cresp EXCEPT ![r] = AlreadyFinished]
            /\ cpc' = [cpc EXCEPT ![r] = "done"]
       ELSE /\ cpc' = [cpc EXCEPT ![r] = "delete"]
            /\ cresp' = cresp
    /\ UNCHANGED <<extraVars, redis, measurement_state, storeVars, procVars, watchVars,
                   cuser, cdeleted, nameVars, submitVars, probeVars, paramVars>>

\* A cancel that also stamps the end time of the measurement.
CancelDeleteStampsEndTime(r) ==
    /\ cpc[r] = "delete"
    /\ cdeleted' = [cdeleted EXCEPT ![r] = IF measurement_state = None THEN "absent" ELSE "present"]
    /\ measurement_state' = None
    /\ end_time' = "stamped"
    /\ cresp' = [cresp EXCEPT ![r] = Canceled]
    /\ cpc' = [cpc EXCEPT ![r] = "done"]
    /\ UNCHANGED <<extraVars, redis, agent_state, procVars, watchVars, cuser, cstate, nameVars, submitVars, probeVars, paramVars>>

\* await redis.delete_measurement_state(measurement_uuid); return canceled
CancelDelete(r) ==
    /\ cpc[r] = "delete"
    /\ cdeleted' = [cdeleted EXCEPT ![r] = IF measurement_state = None THEN "absent" ELSE "present"]
    /\ measurement_state' = None
    /\ cresp' = [cresp EXCEPT ![r] = Canceled]
    /\ cpc' = [cpc EXCEPT ![r] = "done"]
    /\ UNCHANGED <<extraVars, redis, storeVars, procVars, watchVars, cuser, cstate, nameVars, submitVars, probeVars, paramVars>>

\* The orchestrator marks an agent finished when its rounds have stopped.
RoundComplete(a) ==
    /\ wpc[a] = "done"
    /\ agent_state[a] # "finished"
    /\ agent_state' = [agent_state EXCEPT ![a] = "finished"]
    /\ UNCHANGED <<extraVars, redis, measurement_state, end_time, procVars, watchVars,
                   cancelVars, nameVars, submitVars, probeVars, paramVars>>

\* Once every agent is finished: stamp end_time, delete the liveness key.
Finalize ==
    /\ \A a \in Agents : agent_state[a] = "finished"
    /\ end_time = None
    /\ end_time' = "stamped"
    /\ measurement_state' = None
    /\ UNCHANGED <<extraVars, redis, agent_state, procVars, watchVars, cancelVars, nameVars, submitVars, probeVars, paramVars>>

Watcher == \E a \in Agents :
    WatcherWhile(a) \/ WatcherPoll(a) \/ WatcherDecide(a) \/ WatcherSleep(a)

Process == \E a \in Agents : ProcessExit(a)

Cancel == \E r \in Requests : CancelGet(r) \/ CancelState(r) \/ CancelDelete(r)

Orchestrator == Finalize \/ \E a \in Agents : RoundComplete(a)

Next == Watcher \/ Process \/ Cancel \/ Orchestrator

InitName ==
    /\ uuid_m \in Strings
    /\ uuid_a \in Strings
    /\ table_name = None
    /\ parsed = None
    /\ name_pc = "start"

IdleName ==
    /\ uuid_m = <<>>
    /\ uuid_a = <<>>
    /\ table_name = None
    /\ parsed = None
    /\ name_pc = "idle"

Forge ==
    /\ name_pc = "start"
    /\ table_name' = forge_table_name(uuid_m, uuid_a)
    /\ name_pc' = "forged"
    /\ UNCHANGED <<extraVars, uuid_m, uuid_a, parsed, orchVars, submitVars, probeVars, paramVars>>

Parse ==
    /\ name_pc = "forged"
    /\ parsed' = parse_table_name(table_name)
    /\ name_pc' = "parsed"
    /\ UNCHANGED <<extraVars, uuid_m, uuid_a, table_name, orchVars, submitVars, probeVars, paramVars>>

NextName == Forge \/ Parse

(***************************************************************************)
(* Measurement submission: post_measurement.                               *)
(***************************************************************************)
MaxReqAgents == 2

MaxPrefixes == 2

AgentUUIDs == {"agent1", "agent2"}

Tools == {"diamond-miner", "diamond-miner-ping"}

Protocols == {"icmp", "udp"}

FileNotFound == "404 File object not found"

InvalidPrefixes == "401 Invalid prefixes length"

QuotaExceeded == "401 Quota exceeded"

PingOnlyIcmp == "401 Tool diamond-miner-ping only accessible with ICMP protocol"

AgentNotFound == "404 Agent not found"

Created == "201 Created"

ErrorResponses == {FileNotFound, InvalidPrefixes, QuotaExceeded, PingOnlyIcmp, AgentNotFound}

AgentEntries == [uuid : AgentUUIDs, protocol : Protocols]

RECURSIVE SeqsUpTo(_, _)
SeqsUpTo(S, n) ==
    IF n = 0 THEN {<<>>}
    ELSE LET shorter == SeqsUpTo(S, n - 1)
         IN  shorter \cup {Append(q, x) : q \in {t \in shorter : Len(t) = n - 1}, x \in S}

\* A validator that lets every protocol through.
tool_parameters_validator_no_check(tool, parameters) ==
    IF tool = "diamond-miner-ping"
    THEN [error |-> None, parameters |-> [parameters EXCEPT !.max_round = 1]]
    ELSE [error |-> None, parameters |-> parameters]

\* tool_parameters_validator: the parameters returned, or the 401 raised.
\* A max_round of 0 stands for a max_round the request left unset.
tool_parameters_validator(tool, parameters) ==
    IF tool = "diamond-miner-ping"
    THEN IF parameters.protocol = "udp"
         THEN [error |-> PingOnlyIcmp, parameters |-> [parameters EXCEPT !.max_round = 1]]
         ELSE [error |-> None, parameters |-> [parameters EXCEPT !.max_round = 1]]
    ELSE [error |-> None, parameters |-> parameters]

\* verify_quota: return not (n_prefixes > user_quota)
verify_quota(n, quota) == ~(n > quota)

\* A loop over measurement.agents that does not look the agent up in the
\* live set.
RECURSIVE AgentsLoopNoLiveCheck(_, _, _, _, _)
AgentsLoopNoLiveCheck(tool, list, i, live, acc) ==
    IF i > Len(list) THEN [error |-> None, agents |-> acc]
    ELSE LET agent == list[i]
             validated == tool_parameters_validator(
                              tool, [protocol |-> agent.protocol, max_round |-> 0])
         IN  IF validated.error # None
             THEN [error |-> PingOnlyIcmp, agents |-> acc]
             ELSE AgentsLoopNoLiveCheck(tool, list, i + 1, live,
                      [u \in DOMAIN acc \cup {agent.uuid} |->
                          IF u = agent.uuid THEN validated.parameters ELSE acc[u]])

\* for agent in measurement.agents: ... agents[agent_uuid] = agent.dict()
RECURSIVE AgentsLoop(_, _, _, _, _)
AgentsLoop(tool, list, i, live, acc) ==
    IF i > Len(list) THEN [error |-> None, agents |-> acc]
    ELSE LET agent == list[i]
             validated == tool_parameters_validator(
                              tool, [protocol |-> agent.protocol, max_round |-> 0])
         IN  IF agent.uuid \notin live
             THEN [error |-> AgentNotFound, agents |-> acc]
             ELSE IF validated.error # None
             THEN [error |-> PingOnlyIcmp, agents |-> acc]
             ELSE AgentsLoop(tool, list, i + 1, live,
                      [u \in DOMAIN acc \cup {agent.uuid} |->
                          IF u = agent.uuid THEN validated.parameters ELSE acc[u]])

\* The agents dictionary of the dispatch message, or the error raised.
BuildAgents(tool, list, live) ==
    IF Len(list) > 0
    THEN AgentsLoop(tool, list, 1, live, <<>>)
    ELSE [error |-> None, agents |-> [u \in live |-> <<>>]]

IdleSubmit ==
    /\ active = {}
    /\ req_tool = None
    /\ req_protocol = None
    /\ req_agents = <<>>
    /\ ppc = "idle"
    /\ file_found = None
    /\ n_prefixes = 0
    /\ user_quota = 0
    /\ max_round = 0
    /\ registry_read = FALSE
    /\ active_agents = {}
    /\ presp = None
    /\ sent = <<>>

InitSubmit ==
    /\ active \in SUBSET AgentUUIDs
    /\ req_tool \in Tools
    /\ req_protocol \in Protocols
    /\ req_agents \in SeqsUpTo(AgentEntries, MaxReqAgents)
    /\ ppc = "file"
    /\ file_found = None
    /\ n_prefixes = 0
    /\ user_quota = 0
    /\ max_round = 0
    /\ registry_read = FALSE
    /\ active_agents = {}
    /\ presp = None
    /\ sent = <<>>

\* An agent registers in the registry.
AgentConnect(u) ==
    /\ u \notin active
    /\ active' = active \cup {u}
    /\ UNCHANGED <<extraVars, req_tool, req_protocol, req_agents, ppc, file_found, n_prefixes,
                   user_quota, max_round, registry_read, active_agents, presp, sent,
                   nameVars, orchVars, probeVars, paramVars>>

\* An agent's registration expires.
AgentDisconnect(u) ==
    /\ u \in active
    /\ active' = active \ {u}
    /\ UNCHANGED <<extraVars, req_tool, req_protocol, req_agents, ppc, file_found, n_prefixes,
                   user_quota, max_round, registry_read, active_agents, presp, sent,
                   nameVars, orchVars, probeVars, paramVars>>

\* targets_file = await request.app.storage.get_file_no_retry(...)
PostGetFile ==
    /\ ppc = "file"
    /\ \E found \in BOOLEAN :
          IF found
          THEN /\ file_found' = "found"
               /\ ppc' = "quota"
               /\ presp' = presp
          ELSE /\ file_found' = "missing"
               /\ ppc' = "done"
               /\ presp' = FileNotFound
    /\ UNCHANGED <<extraVars, active, req_tool, req_protocol, req_agents, n_prefixes, user_quota,
                   max_round, registry_read, active_agents, sent, nameVars, orchVars, probeVars, paramVars>>

\* verify_quota, then tool_parameters_validator on the measurement's parameters
PostValidate ==
    /\ ppc = "quota"
    /\ \E valid \in BOOLEAN, n \in 0..MaxPrefixes, quota \in 0..MaxPrefixes :
          LET validated == tool_parameters_validator(
                               req_tool, [protocol |-> req_protocol, max_round |-> 0])
          IN  IF ~valid
              THEN /\ presp' = InvalidPrefixes
                   /\ ppc' = "done"
                   /\ UNCHANGED <<extraVars, n_prefixes, user_quota, max_round>>
              ELSE /\ n_prefixes' = n
                   /\ user_quota' = quota
                   /\ IF ~verify_quota(n, quota)
                      THEN /\ presp' = QuotaExceeded
                           /\ ppc' = "done"
                           /\ max_round' = max_round
                      ELSE IF validated.error # None
                      THEN /\ presp' = PingOnlyIcmp
                           /\ ppc' = "done"
                           /\ max_round' = max_round
                      ELSE /\ presp' = presp
                           /\ ppc' = "agents"
                           /\ max_round' = validated.parameters.max_round
    /\ UNCHANGED <<extraVars, active, req_tool, req_protocol, req_agents, file_found,
                   registry_read, active_agents, sent, nameVars, orchVars, probeVars, paramVars>>

\* active_agents = await request.app.redis.get_agents(state=False, parameters=False)
PostGetAgents ==
    /\ ppc = "agents"
    /\ active_agents' = active
    /\ registry_read' = TRUE
    /\ ppc' = "dispatch"
    /\ UNCHANGED <<extraVars, active, req_tool, req_protocol, req_agents, file_found, n_prefixes,
                   user_quota, max_round, presp, sent, nameVars, orchVars, probeVars, paramVars>>

\* the loop over measurement.agents, then hook.send(agents, measurement)
PostDispatch ==
    /\ ppc = "dispatch"
    /\ LET built == BuildAgents(req_tool, req_agents, active_agents)
       IN  IF built.error # None
           THEN /\ presp' = built.error
                /\ sent' = sent
           ELSE /\ presp' = Created
                /\ sent' = Append(sent,
                       [agents |-> built.agents,
                        measurement |-> [tool |-> req_tool,
                                         tool_parameters |-> [protocol |-> req_protocol,
                                                              max_round |-> max_round]]])
    /\ ppc' = "done"
    /\ UNCHANGED <<extraVars, active, req_tool, req_protocol, req_agents, file_found, n_prefixes,
                   user_quota, max_round, registry_read, active_agents, nameVars, orchVars, probeVars, paramVars>>

Registry == \E u \in AgentUUIDs : AgentConnect(u) \/ AgentDisconnect(u)

PostMeasurement == PostGetFile \/ PostValidate \/ PostGetAgents \/ PostDispatch

NextSubmit == Registry \/ PostMeasurement

(***************************************************************************)
(* Prober supervisor: probe().                                             *)
(***************************************************************************)
MaxRate == 3

MaxRound == 3

\* str(n) for a natural number: its decimal digits.
Digit(d) == CASE d = 0 -> "0" [] d = 1 -> "1" [] d = 2 -> "2" [] d = 3 -> "3"
              [] d = 4 -> "4" [] d = 5 -> "5" [] d = 6 -> "6" [] d = 7 -> "7"
              [] d = 8 -> "8" [] d = 9 -> "9"

RECURSIVE Str(_)
Str(n) == IF n < 10 THEN <<Digit(n)>> ELSE Append(Str(n \div 10), Digit(n % 10))

\* A cap that hands any requested rate to the engine.
measurement_probing_rate_uncapped(rate, maximum) ==
    IF rate # <<>> /\ rate[1] # 0 THEN rate[1] ELSE maximum

\* probing_rate if probing_rate and probing_rate <= max else max
measurement_probing_rate(rate, maximum) ==
    IF rate # <<>> /\ rate[1] # 0 /\ rate[1] <= maximum
    THEN rate[1]
    ELSE maximum

NoConfig == [probing_rate |-> 0, meta_round |-> <<>>, filter_installed |-> FALSE,
             filter_path |-> None]

IdleProbe ==
    /\ probing_rate = <<>>
    /\ AGENT_MAX_PROBING_RATE = 0
    /\ round_number = 0
    /\ AGENT_PROBER_EXCLUDE_PATH = None
    /\ config = NoConfig
    /\ engine_input = None
    /\ generator_calls = 0
    /\ probe_pc = "idle"

InitProbe ==
    /\ probing_rate \in {<<>>} \cup {<<r>> : r \in 0..(MaxRate + 1)}
    /\ AGENT_MAX_PROBING_RATE \in 1..MaxRate
    /\ round_number \in 1..MaxRound
    /\ AGENT_PROBER_EXCLUDE_PATH \in {None, "excluded_prefixes"}
    /\ config = NoConfig
    /\ engine_input = None
    /\ generator_calls = 0
    /\ probe_pc = "start"

\* config = prober.Config(); set_probing_rate; set_meta_round;
\* if settings.AGENT_PROBER_EXCLUDE_PATH is None: config.filter_from_prefix_file_excl(...)
ProbeConfigure ==
    /\ probe_pc = "start"
    /\ config' = [probing_rate |->
                      measurement_probing_rate(probing_rate, AGENT_MAX_PROBING_RATE),
                  meta_round |-> Str(round_number),
                  filter_installed |-> (AGENT_PROBER_EXCLUDE_PATH = None),
                  filter_path |-> AGENT_PROBER_EXCLUDE_PATH]
    /\ probe_pc' = "configured"
    /\ UNCHANGED <<extraVars, probing_rate, AGENT_MAX_PROBING_RATE, round_number,
                   AGENT_PROBER_EXCLUDE_PATH, engine_input, generator_calls,
                   nameVars, orchVars, submitVars, paramVars>>

\* A run that feeds the engine the generated stream in every round.
ProbeRunAlwaysGenerates ==
    /\ probe_pc = "configured"
    /\ generator_calls' = generator_calls + 1
    /\ engine_input' = "generator"
    /\ probe_pc' = "done"
    /\ UNCHANGED <<extraVars, probing_rate, AGENT_MAX_PROBING_RATE, round_number,
                   AGENT_PROBER_EXCLUDE_PATH, config, nameVars, orchVars, submitVars,
                   paramVars>>

\* if round_number == 1: prober.probe(config, gen) else: prober.probe(config, probes_filepath)
ProbeRun ==
    /\ probe_pc = "configured"
    /\ IF round_number = 1
       THEN /\ generator_calls' = generator_calls + 1
            /\ engine_input' = "generator"
       ELSE /\ generator_calls' = generator_calls
            /\ engine_input' = "probes_file"
    /\ probe_pc' = "done"
    /\ UNCHANGED <<extraVars, probing_rate, AGENT_MAX_PROBING_RATE, round_number,
                   AGENT_PROBER_EXCLUDE_PATH, config, nameVars, orchVars, submitVars,
                   paramVars>>

NextProbe == ProbeConfigure \/ ProbeRun

(***************************************************************************)
(* Parameter view: ParametersDataclass.                                    *)
(***************************************************************************)
MaxValue == 2

ParamKeys == {"user", "agent_uuid"}

ParamValues == 1..MaxValue

\* The dictionaries over ParamKeys.
Layers == UNION {[D -> ParamValues] : D \in SUBSET ParamKeys}

\* A merge in which the first dictionary wins on a key collision.
MergeFirstWins(first, second) ==
    [k \in DOMAIN first \cup DOMAIN second |->
        IF k \in DOMAIN first THEN first[k] ELSE second[k]]

\* {**first, **second}: on a key collision the later dictionary wins.
Merge(first, second) ==
    [k \in DOMAIN first \cup DOMAIN second |->
        IF k \in DOMAIN second THEN second[k] ELSE first[k]]

\* self._dataclass = {**physical, **measurement, **specific, "agent_uuid": agent_uuid}
BuildDataclass(uuid, measurement, physical, specific) ==
    Merge(Merge(Merge(physical, measurement), specific),
          [k \in {"agent_uuid"} |-> uuid])

\* __getattr__: self._dataclass[parameter], or AttributeError
GetAttr(view, parameter) ==
    IF parameter \in DOMAIN view
    THEN [error |-> None, value |-> view[parameter]]
    ELSE [error |-> "AttributeError", value |-> 0]

NoLookup == [error |-> None, value |-> 0]

IdleParams ==
    /\ agent_uuid_arg = 0
    /\ measurement_parameters = <<>>
    /\ physical_parameters = <<>>
    /\ specific_parameters = <<>>
    /\ dataclass = <<>>
    /\ looked_up = None
    /\ lookup = NoLookup
    /\ params_pc = "idle"

InitParams ==
    /\ agent_uuid_arg \in ParamValues
    /\ measurement_parameters \in Layers
    /\ physical_parameters \in Layers
    /\ specific_parameters \in Layers
    /\ dataclass = <<>>
    /\ looked_up = None
    /\ lookup = NoLookup
    /\ params_pc = "start"

\* ParametersDataclass.__init__
ParamsInit ==
    /\ params_pc = "start"
    /\ dataclass' = BuildDataclass(agent_uuid_arg, measurement_parameters,
                                   physical_parameters, specific_parameters)
    /\ params_pc' = "built"
    /\ UNCHANGED <<extraVars, agent_uuid_arg, measurement_parameters, physical_parameters,
                   specific_parameters, looked_up, lookup,
                   nameVars, orchVars, submitVars, probeVars>>

\* ParametersDataclass.__getattr__
ParamsGetAttr(parameter) ==
    /\ params_pc = "built"
    /\ looked_up' = parameter
    /\ lookup' = GetAttr(dataclass, parameter)
    /\ UNCHANGED <<extraVars, agent_uuid_arg, measurement_parameters, physical_parameters,
                   specific_parameters, dataclass, params_pc,
                   nameVars, orchVars, submitVars, probeVars>>

NextParams == ParamsInit \/ \E parameter \in ParamKeys : ParamsGetAttr(parameter)

(***************************************************************************)
(* Paginated results read: get_measurement_results, for one measurement    *)
(* owned by Owner and one agent.                                           *)
(***************************************************************************)
MaxRows == 2

AgentStates == {"waiting", "ongoing", "finished"}

NoResponse == [status |-> None, count |-> 0, next |-> None, previous |-> None, results |-> <<>>]

ErrorResponse(detail) == [NoResponse EXCEPT !.status = detail]

ResNotFound == ErrorResponse(NotFound)

ResDidNotParticipate == ErrorResponse("404 The agent did not participate to measurement")

ResNotFinished == ErrorResponse("412 The agent has not finished the measurement")

\* return {"count": 0, "next": None, "previous": None, "results": []}
EmptyPage == [status |-> "200", count |-> 0, next |-> None, previous |-> None, results |-> <<>>]

\* DatabasePagination(database, request, offset, limit).query(): rows offset+1 .. offset+limit.
PageOf(rows, offset, limit) ==
    LET last == IF offset + limit < rows THEN offset + limit ELSE rows
    IN  [status |-> "200",
         count |-> rows,
         next |-> IF offset + limit < rows THEN "next" ELSE None,
         previous |-> IF offset > 0 THEN "previous" ELSE None,
         results |-> IF last > offset THEN [i \in 1..(last - offset) |-> offset + i] ELSE <<>>]

IdleResults ==
    /\ res_user = None
    /\ res_stored = None
    /\ table_exists = FALSE
    /\ table_rows = 0
    /\ res_offset = 0
    /\ res_limit = 0
    /\ res_pc = "idle"
    /\ agent_specific_info = "unread"
    /\ res_resp = NoResponse

InitResults ==
    /\ res_user \in Users
    /\ res_stored \in AgentStates \cup {None}
    /\ table_exists \in BOOLEAN
    /\ table_rows \in 0..MaxRows
    /\ ~table_exists => table_rows = 0
    /\ res_offset \in 0..MaxRows
    /\ res_limit \in 0..MaxRows
    /\ res_pc = "get"
    /\ agent_specific_info = "unread"
    /\ res_resp = NoResponse

\* measurement_info = await DatabaseMeasurements(...).get(user["username"], measurement_uuid)
ResultsGet ==
    /\ res_pc = "get"
    /\ IF MeasurementsGet(res_user) = None
       THEN /\ res_resp' = ResNotFound
            /\ res_pc' = "done"
       ELSE /\ res_pc' = "agent"
            /\ res_resp' = res_resp
    /\ UNCHANGED <<res_user, res_stored, table_exists, table_rows, res_offset,
                   res_limit, agent_specific_info, targetsVars, mutVars, infoVars,
                   nameVars, orchVars, submitVars, probeVars, paramVars>>

\* agent_specific_info = await DatabaseAgentsSpecific(...).get(measurement_uuid, agent_uuid)
\* and the two checks made on it.
ResultsAgentSpecific ==
    /\ res_pc = "agent"
    /\ agent_specific_info' = res_stored
    /\ IF res_stored = None
       THEN /\ res_resp' = ResDidNotParticipate
            /\ res_pc' = "done"
       ELSE IF res_stored # "finished"
       THEN /\ res_resp' = ResNotFinished
            /\ res_pc' = "done"
       ELSE /\ res_pc' = "exists"
            /\ res_resp' = res_resp
    /\ UNCHANGED <<res_user, res_stored, table_exists, table_rows, res_offset,
                   res_limit, targetsVars, mutVars, infoVars,
                   nameVars, orchVars, submitVars, probeVars, paramVars>>

\* A read that goes on to the query without asking whether the table exists.
ResultsIsExistsNoCheck ==
    /\ res_pc = "exists"
    /\ IF ~table_exists
       THEN /\ res_resp' = ErrorResponse("500 Internal Server Error")
            /\ res_pc' = "done"
       ELSE /\ res_pc' = "query"
            /\ res_resp' = res_resp
    /\ UNCHANGED <<res_user, res_stored, table_exists, table_rows, res_offset,
                   res_limit, agent_specific_info, targetsVars, mutVars, infoVars,
                   nameVars, orchVars, submitVars, probeVars, paramVars>>

\* is_table_exists = await database.is_exists(); if not is_table_exists: return the empty page
ResultsIsExists ==
    /\ res_pc = "exists"
    /\ IF ~table_exists
       THEN /\ res_resp' = EmptyPage
            /\ res_pc' = "done"
       ELSE /\ res_pc' = "query"
            /\ res_resp' = res_resp
    /\ UNCHANGED <<res_user, res_stored, table_exists, table_rows, res_offset,
                   res_limit, agent_specific_info, targetsVars, mutVars, infoVars,
                   nameVars, orchVars, submitVars, probeVars, paramVars>>

\* querier = DatabasePagination(database, request, offset, limit); return await querier.query()
ResultsQuery ==
    /\ res_pc = "query"
    /\ res_resp' = PageOf(table_rows, res_offset, res_limit)
    /\ res_pc' = "done"
    /\ UNCHANGED <<res_user, res_stored, table_exists, table_rows, res_offset,
                   res_limit, agent_specific_info, targetsVars, mutVars, infoVars,
                   nameVars, orchVars, submitVars, probeVars, paramVars>>

NextResults == ResultsGet \/ ResultsAgentSpecific \/ ResultsIsExists \/ ResultsQuery

(***************************************************************************)
(* Targets file verification: verify_target_file.  A file is a sequence    *)
(* of lines; a line is what line.strip().split(",") gives, its fields.     *)
(* TTL fields are kept as text (sequences of characters) for int().        *)
(***************************************************************************)
MaxLines == 2

\* ipaddress.ip_network(text) succeeds: a network, or a single address, with no host bits set.
NetworkTexts == {"10.0.0.0/8", "8.8.8.8", "2001:db8::/32"}

TargetTexts == NetworkTexts \cup {"10.0.0.1/8", "example"}

ProtocolTexts == {"icmp", "icmp6", "udp", "tcp"}

TtlTexts == {<<"0">>, <<"1">>, <<"2", "5", "5">>, <<"2", "5", "6">>, <<"x">>}

DigitChars == {Digit(d) : d \in 0..9}

\* int(text) does not raise ValueError.
IsInt(text) == Len(text) > 0 /\ \A i \in 1..Len(text) : text[i] \in DigitChars

\* int(text) for a text of decimal digits.
RECURSIVE IntOf(_)
IntOf(text) ==
    LET last == CHOOSE d \in 0..9 : Digit(d) = text[Len(text)]
    IN  IF Len(text) = 1 THEN last
        ELSE IntOf(SubSeq(text, 1, Len(text) - 1)) * 10 + last

GoodLine == <<"10.0.0.0/8", "udp", <<"1">>, <<"2", "5", "5">>>>

\* The lines a file is drawn from: the good line with one field changed,
\* with a field added, with fields missing, and the blank line.
Lines ==
    {[GoodLine EXCEPT ![1] = t] : t \in TargetTexts}
    \cup {[GoodLine EXCEPT ![2] = p] : p \in ProtocolTexts}
    \cup {[GoodLine EXCEPT ![3] = t] : t \in TtlTexts}
    \cup {[GoodLine EXCEPT ![4] = t] : t \in TtlTexts}
    \cup {Append(GoodLine, "extra")}
    \cup {SubSeq(GoodLine, 1, k) : k \in 1..3}
    \cup {<<"">>}

RECURSIVE FilesUpTo(_)
FilesUpTo(n) ==
    IF n = 0 THEN {<<>>}
    ELSE LET shorter == FilesUpTo(n - 1)
         IN  shorter \cup {Append(f, l) : f \in {g \in shorter : Len(g) = n - 1}, l \in Lines}

\* The body of the try block for one line; an exception (ValueError of
\* ip_network or int, IndexError of a missing field) gives False.
line_is_valid(line_split) ==
    IF line_split[1] \notin NetworkTexts THEN FALSE
    ELSE IF Len(line_split) < 2 THEN FALSE
    ELSE IF line_split[2] \notin {"icmp", "icmp6", "udp"} THEN FALSE
    ELSE IF Len(line_split) < 3 \/ ~IsInt(line_split[3]) THEN FALSE
    ELSE IF ~(0 < IntOf(line_split[3]) /\ IntOf(line_split[3]) <= 255) THEN FALSE
    ELSE IF Len(line_split) < 4 \/ ~IsInt(line_split[4]) THEN FALSE
    ELSE IF ~(0 < IntOf(line_split[4]) /\ IntOf(line_split[4]) <= 255) THEN FALSE
    ELSE TRUE

IdleTargets ==
    /\ targets_file = <<>>
    /\ line_no = 0
    /\ tf_pc = "idle"
    /\ tf_result = None

InitTargets ==
    /\ targets_file \in FilesUpTo(MaxLines)
    /\ line_no = 0
    /\ tf_pc = "start"
    /\ tf_result = None

\* target_file.file.seek(0, 2); if target_file.file.tell() == 0: return False
VerifyEmpty ==
    /\ tf_pc = "start"
    /\ IF Len(targets_file) = 0
       THEN /\ tf_result' = "False"
            /\ tf_pc' = "done"
       ELSE /\ tf_result' = tf_result
            /\ tf_pc' = "lines"
    /\ UNCHANGED <<targets_file, line_no, resultsVars, mutVars, infoVars,
                   nameVars, orchVars, submitVars, probeVars, paramVars>>

\* for line in target_file.file.readlines(): one pass of the loop body
VerifyLine ==
    /\ tf_pc = "lines"
    /\ line_no < Len(targets_file)
    /\ line_no' = line_no + 1
    /\ IF line_is_valid(targets_file[line_no + 1])
       THEN /\ tf_result' = tf_result
            /\ tf_pc' = tf_pc
       ELSE /\ tf_result' = "False"
            /\ tf_pc' = "done"
    /\ UNCHANGED <<targets_file, resultsVars, mutVars, infoVars,
                   nameVars, orchVars, submitVars, probeVars, paramVars>>

\* the loop is exhausted: return True
VerifyReturn ==
    /\ tf_pc = "lines"
    /\ line_no = Len(targets_file)
    /\ tf_result' = "True"
    /\ tf_pc' = "done"
    /\ UNCHANGED <<targets_file, line_no, resultsVars, mutVars, infoVars,
                   nameVars, orchVars, submitVars, probeVars, paramVars>>

NextTargets == VerifyEmpty \/ VerifyLine \/ VerifyReturn

(***************************************************************************)
(* Callers of the parameter view: the three layer mappings stay in the     *)
(* hands of whoever built the view, and dict() hands out a mapping.        *)
(***************************************************************************)
LayerNames == {"measurement", "physical", "specific"}

\* mapping[key] = value on a dict
SetItem(mapping, key, value) ==
    [k \in DOMAIN mapping \cup {key} |-> IF k = key THEN value ELSE mapping[k]]

IdleMut == returned_map = None

\* def dict(self): return self._dataclass -- the object itself, not a copy
ParamsDict ==
    /\ params_pc = "built"
    /\ returned_map = None
    /\ returned_map' = "self._dataclass"
    /\ UNCHANGED <<paramVars, resultsVars, targetsVars, infoVars,
                   nameVars, orchVars, submitVars, probeVars>>

\* The builder changes one of the mappings it passed to __init__;
\* self._dataclass was built from them as a new dict.
LayerSetItem(layer, key, value) ==
    /\ params_pc = "built"
    /\ measurement_parameters' =
          IF layer = "measurement" THEN SetItem(measurement_parameters, key, value)
          ELSE measurement_parameters
    /\ physical_parameters' =
          IF layer = "physical" THEN SetItem(physical_parameters, key, value)
          ELSE physical_parameters
    /\ specific_parameters' =
          IF layer = "specific" THEN SetItem(specific_parameters, key, value)
          ELSE specific_parameters
    /\ UNCHANGED <<agent_uuid_arg, dataclass, looked_up, lookup, params_pc,
                   returned_map, resultsVars, targetsVars, infoVars,
                   nameVars, orchVars, submitVars, probeVars>>

\* The caller of dict() changes the mapping it was given.
ReturnedSetItem(key, value) ==
    /\ params_pc = "built"
    /\ returned_map = "self._dataclass"
    /\ dataclass' = SetItem(dataclass, key, value)
    /\ UNCHANGED <<agent_uuid_arg, measurement_parameters, physical_parameters,
                   specific_parameters, looked_up, lookup, params_pc,
                   returned_map, resultsVars, targetsVars, infoVars,
                   nameVars, orchVars, submitVars, probeVars>>

NextParamsMut ==
    \/ NextParams
    \/ ParamsDict
    \/ \E layer \in LayerNames, key \in ParamKeys, value \in ParamValues :
          LayerSetItem(layer, key, value)
    \/ \E key \in ParamKeys, value \in ParamValues : ReturnedSetItem(key, value)

(***************************************************************************)
(* Info endpoints: get_measurement_by_uuid and get_measurements, read      *)
(* while cancel requests and the orchestrator are at work.                 *)
(***************************************************************************)
IdleInfo ==
    /\ iuser = None
    /\ ipc = "idle"
    /\ istate = "unread"
    /\ ireported = None
    /\ iagents = <<>>
    /\ iresp = None
    /\ lstate = "unread"
    /\ lreported = None

\* No probing process is running; the stored rows and the key are in any
\* state the orchestrator, a cancel or the finalization can have left them.
InitInfo ==
    /\ redis = [a \in Agents |-> TRUE]
    /\ measurement_state \in {"waiting", "ongoing", None}
    /\ agent_state \in [Agents -> AgentStates]
    /\ end_time \in {None, "stamped"}
    /\ measurement_state = "waiting" => \A a \in Agents : agent_state[a] = "waiting"
    /\ end_time = "stamped" =>
          (measurement_state = None /\ \A a \in Agents : agent_state[a] = "finished")
    /\ alive = [a \in Agents |-> FALSE]
    /\ exited = [a \in Agents |-> TRUE]
    /\ kills = [a \in Agents |-> 0]
    /\ kill_found = [a \in Agents |-> None]
    /\ wpc = [a \in Agents |-> "done"]
    /\ wstate = [a \in Agents |-> "unread"]
    /\ wret = [a \in Agents |-> "True"]
    /\ sleeps = [a \in Agents |-> 0]
    /\ cuser \in [Requests -> Users]
    /\ cpc = [r \in Requests |-> "get"]
    /\ cstate = [r \in Requests |-> "unread"]
    /\ cdeleted = [r \in Requests |-> None]
    /\ cresp = [r \in Requests |-> None]
    /\ iuser \in Users
    /\ ipc = "get"
    /\ istate = "unread"
    /\ ireported = None
    /\ iagents = [a \in Agents |-> None]
    /\ iresp = None
    /\ lstate = "unread"
    /\ lreported = None

\* measurement = await DatabaseMeasurements(...).get(user["username"], measurement_uuid)
InfoGet ==
    /\ ipc = "get"
    /\ IF MeasurementsGet(iuser) = None
       THEN /\ iresp' = NotFound
            /\ ipc' = "done"
       ELSE /\ ipc' = "state"
            /\ iresp' = iresp
    /\ UNCHANGED <<iuser, istate, ireported, iagents, lstate, lreported,
                   resultsVars, targetsVars, mutVars,
                   nameVars, orchVars, submitVars, probeVars, paramVars>>

\* state = await redis.get_measurement_state(...)
\* measurement["state"] = "finished" if state is None else state
InfoState ==
    /\ ipc = "state"
    /\ istate' = measurement_state
    /\ ireported' = IF measurement_state = None THEN "finished" ELSE measurement_state
    /\ ipc' = "agents"
    /\ UNCHANGED <<iuser, iagents, iresp, lstate, lreported,
                   resultsVars, targetsVars, mutVars,
                   nameVars, orchVars, submitVars, probeVars, paramVars>>

\* An agents loop that reports each stored state as it is.
InfoAgentsStored ==
    /\ ipc = "agents"
    /\ iagents' = [a \in Agents |-> agent_state[a]]
    /\ iresp' = "200"
    /\ ipc' = "done"
    /\ UNCHANGED <<iuser, istate, ireported, lstate, lreported,
                   resultsVars, targetsVars, mutVars,
                   nameVars, orchVars, submitVars, probeVars, paramVars>>

\* agents_specific = await DatabaseAgentsSpecific(...).all(measurement["uuid"])
\* and the loop that overrides the state of each row read; return measurement
InfoAgents ==
    /\ ipc = "agents"
    /\ iagents' = [a \in Agents |->
                      IF ireported = "waiting" THEN "waiting"
                      ELSE IF ireported = "finished" THEN "finished"
                      ELSE agent_state[a]]
    /\ iresp' = "200"
    /\ ipc' = "done"
    /\ UNCHANGED <<iuser, istate, ireported, lstate, lreported,
                   resultsVars, targetsVars, mutVars,
                   nameVars, orchVars, submitVars, probeVars, paramVars>>

\* get_measurements, for the owner: state = await redis.get_measurement_state(...)
\* and "state": "finished" if state is None else state
InfoList ==
    /\ lstate = "unread"
    /\ lstate' = measurement_state
    /\ lreported' = IF measurement_state = None THEN "finished" ELSE measurement_state
    /\ UNCHANGED <<iuser, ipc, istate, ireported, iagents, iresp,
                   resultsVars, targetsVars, mutVars,
                   nameVars, orchVars, submitVars, probeVars, paramVars>>

Info == InfoGet \/ InfoState \/ InfoAgents \/ InfoList

NextInfo == Info \/ Cancel \/ Orchestrator

(***************************************************************************)
(* Specifications.  Each one runs one part of the system and keeps the     *)
(* variables of the other parts idle.                                      *)
(***************************************************************************)
IdleExtra == IdleResults /\ IdleTargets /\ IdleMut /\ IdleInfo

Init == InitOrch /\ IdleName /\ IdleSubmit /\ IdleProbe /\ IdleParams /\ IdleExtra

Spec == Init /\ [][Next]_vars

InitNameOnly == InitName /\ IdleOrch /\ IdleSubmit /\ IdleProbe /\ IdleParams /\ IdleExtra

SpecName == InitNameOnly /\ [][NextName]_vars

InitSubmitOnly == InitSubmit /\ IdleName /\ IdleOrch /\ IdleProbe /\ IdleParams /\ IdleExtra

SpecSubmit == InitSubmitOnly /\ [][NextSubmit]_vars

InitProbeOnly == InitProbe /\ IdleName /\ IdleOrch /\ IdleSubmit /\ IdleParams /\ IdleExtra

SpecProbe == InitProbeOnly /\ [][NextProbe]_vars

InitParamsOnly == InitParams /\ IdleName /\ IdleOrch /\ IdleSubmit /\ IdleProbe /\ IdleExtra

SpecParams == InitParamsOnly /\ [][NextParams]_vars

InitResultsOnly ==
    InitResults /\ IdleName /\ IdleOrch /\ IdleSubmit /\ IdleProbe /\ IdleParams
                /\ IdleTargets /\ IdleMut /\ IdleInfo

SpecResults == InitResultsOnly /\ [][NextResults]_vars

InitTargetsOnly ==
    InitTargets /\ IdleName /\ IdleOrch /\ IdleSubmit /\ IdleProbe /\ IdleParams
                /\ IdleResults /\ IdleMut /\ IdleInfo

SpecTargets == InitTargetsOnly /\ [][NextTargets]_vars

SpecParamsMut == InitParamsOnly /\ [][NextParamsMut]_vars

InitInfoOnly ==
    InitInfo /\ IdleName /\ IdleSubmit /\ IdleProbe /\ IdleParams
             /\ IdleResults /\ IdleTargets /\ IdleMut

SpecInfo == InitInfoOnly /\ [][NextInfo]_vars

\* One agent still has its probing process and its watcher running; the
\* processes of the others ended and their watchers returned.
InitWatcher ==
    \E w \in Agents :
        /\ redis \in [Agents -> BOOLEAN]
        /\ \A a \in Agents \ {w} : redis[a]
        /\ measurement_state = "ongoing"
        /\ agent_state = [a \in Agents |-> IF a = w THEN "ongoing" ELSE "finished"]
        /\ end_time = None
        /\ alive = [a \in Agents |-> a = w]
        /\ exited = [a \in Agents |-> a # w]
        /\ kills = [a \in Agents |-> 0]
        /\ kill_found = [a \in Agents |-> None]
        /\ wpc = [a \in Agents |-> IF a = w THEN "while" ELSE "done"]
        /\ wstate = [a \in Agents |-> "unread"]
        /\ wret = [a \in Agents |-> IF a = w THEN None ELSE "True"]
        /\ sleeps = [a \in Agents |-> 0]
        /\ cuser \in [Requests -> Users]
        /\ cpc = [r \in Requests |-> "get"]
        /\ cstate = [r \in Requests |-> "unread"]
        /\ cdeleted = [r \in Requests |-> None]
        /\ cresp = [r \in Requests |-> None]

InitWatcherOnly ==
    InitWatcher /\ IdleName /\ IdleSubmit /\ IdleProbe /\ IdleParams /\ IdleExtra

\* The event loop runs every coroutine that is ready: a watcher that can take
\* its next step (the loop test, the redis read, the decision, the end of the
\* sleep) eventually takes it.
FairWatcher ==
    \A a \in Agents :
        /\ WF_vars(WatcherWhile(a))
        /\ WF_vars(WatcherPoll(a))
        /\ WF_vars(WatcherDecide(a))
        /\ WF_vars(WatcherSleep(a))

SpecWatcherFair == InitWatcherOnly /\ [][Next]_vars /\ FairWatcher

(***************************************************************************)
(* Claims.                                                                 *)
(***************************************************************************)
\* C1: for every pair of UUID strings (m, a), parsing the forged table name
\* gives back exactly measurement_uuid = m and agent_uuid = a.
C1_RoundTrip ==
    (name_pc = "parsed" /\ IsUUID(uuid_m) /\ IsUUID(uuid_a))
        => parsed = [measurement_uuid |-> uuid_m, agent_uuid |-> uuid_a]

C1_Witness ==
    /\ name_pc = "parsed"
    /\ IsUUID(uuid_m) /\ IsUUID(uuid_a)
    /\ uuid_m # uuid_a
    /\ \E i \in 1..Len(uuid_m) : uuid_m[i] = "-"
    /\ parsed = [measurement_uuid |-> uuid_m, agent_uuid |-> uuid_a]

\* C2: with a redis client configured, once the liveness key is removed while
\* the process is alive the watcher kills the process at its next poll and
\* returns False; at most one refresh sleep completes between the removal and
\* the kill, and a watcher that has read the key as absent never sleeps again.
C2_KillAtNextPoll ==
    \A a \in Agents : redis[a] =>
        /\ sleeps[a] <= 1
        /\ (wpc[a] = "sleep" => wstate[a] # None)
        /\ (wpc[a] = "done" /\ wstate[a] = None)
              => (wret[a] = "False" /\ kills[a] = 1 /\ ~alive[a])

C2_Witness ==
    \E a \in Agents :
        /\ redis[a]
        /\ sleeps[a] = 1
        /\ kills[a] = 1 /\ kill_found[a] = "alive"
        /\ wret[a] = "False"

\* C3: a process that exited on its own is never killed by the watcher, and
\* the watcher of such a process returns True.
C3_ExitFirstMeansTrue ==
    \A a \in Agents : exited[a] =>
        /\ kills[a] = 0
        /\ (wpc[a] = "done" => wret[a] = "True")

\* C4: a watcher that was given no redis client never kills the process and
\* never reads the key, whatever happens to the key; it returns True, and only
\* after the process has exited on its own.
C4_NoRedisNeverKills ==
    \A a \in Agents : ~redis[a] =>
        /\ kills[a] = 0
        /\ wstate[a] = "unread"
        /\ wret[a] # "False"
        /\ (wret[a] = "True" => (exited[a] /\ ~alive[a]))

C4_Witness ==
    \E a \in Agents :
        /\ ~redis[a]
        /\ wret[a] = "True" /\ exited[a] /\ kills[a] = 0
        /\ \E r \in Requests : cresp[r] = Canceled /\ cdeleted[r] = "present"
        /\ end_time = None

\* C5: every step of the cancel handler leaves the stored AgentSpecific
\* states, Measurement.end_time and every probing process as they were; only
\* its delete step changes the liveness key, and it deletes it.
C5_CancelFrame ==
    [][\A r \in Requests :
          /\ (CancelGet(r) \/ CancelState(r)) => UNCHANGED <<extraVars, measurement_state, storeVars, procVars>>
          /\ CancelDelete(r) => (measurement_state' = None /\ UNCHANGED <<extraVars, storeVars, procVars>>)]_vars

C5_Witness ==
    \E r \in Requests :
        /\ cresp[r] = Canceled /\ cdeleted[r] = "present"
        /\ measurement_state = None
        /\ end_time = None
        /\ \E a \in Agents : alive[a] /\ kills[a] = 0 /\ agent_state[a] = "ongoing"

\* C6 (as claimed): a cancel of an existing measurement by its owner never
\* answers with an error, whether the key is absent already or removed
\* between the state check and the delete.
C6_CancelNeverAnError ==
    \A r \in Requests : cuser[r] = Owner => cresp[r] \in {None, Canceled}

\* C6 (amended): a cancel by the owner whose state check found the key present
\* answers canceled even when the key was removed before its delete; one whose
\* state check found the key absent answers 404 "already finished".
C6_CancelRace ==
    \A r \in Requests : (cuser[r] = Owner /\ cpc[r] = "done") =>
        /\ (cstate[r] # None <=> cresp[r] = Canceled)
        /\ (cstate[r] = None <=> cresp[r] = AlreadyFinished)
        /\ (cresp[r] = Canceled => measurement_state = None)

C6_Witness ==
    \E r \in Requests :
        /\ cuser[r] = Owner
        /\ cresp[r] = Canceled
        /\ cdeleted[r] = "absent"

\* C7: once the live set was read, a submission naming an agent outside it is
\* rejected and nothing is dispatched for it, wherever the agent stands in the
\* list; every agent of a dispatched message was in the live set at that
\* read.
C7_DeadAgentRejected ==
    LET named == {req_agents[i].uuid : i \in 1..Len(req_agents)}
    IN  /\ (registry_read /\ ~(named \subseteq active_agents))
              => /\ sent = <<>>
                 /\ (ppc = "done" => presp \in {AgentNotFound, PingOnlyIcmp})
        /\ \A k \in 1..Len(sent) :
              /\ registry_read
              /\ DOMAIN sent[k].agents \subseteq active_agents
              /\ named \subseteq DOMAIN sent[k].agents

C7_Witness ==
    /\ ppc = "done"
    /\ presp = AgentNotFound
    /\ sent = <<>>
    /\ Len(req_agents) = 2
    /\ req_agents[1].uuid \in active_agents
    /\ req_agents[2].uuid \notin active_agents
    /\ req_agents[2].uuid \in active

\* C8: a submission whose target file is missing, whose quota is exceeded or
\* that asks UDP of diamond-miner-ping (for the measurement or for any agent)
\* is answered with an error and nothing is dispatched; no step of the
\* handler changes the agent registry.
C8_InvalidRejected ==
    /\ [](LET invalid ==
                \/ file_found = "missing"
                \/ n_prefixes > user_quota
                \/ /\ req_tool = "diamond-miner-ping"
                   /\ \/ req_protocol = "udp"
                      \/ \E i \in 1..Len(req_agents) : req_agents[i].protocol = "udp"
          IN  invalid => /\ sent = <<>>
                         /\ (ppc = "done" => presp \in ErrorResponses))
    /\ [][PostMeasurement => active' = active]_vars

C8_Witness ==
    /\ ppc = "done"
    /\ presp = PingOnlyIcmp
    /\ sent = <<>>
    /\ req_tool = "diamond-miner-ping"
    /\ req_protocol = "icmp"
    /\ registry_read
    /\ Len(req_agents) = 2
    /\ req_agents[1].protocol = "icmp"
    /\ req_agents[2].protocol = "udp"
    /\ {req_agents[1].uuid, req_agents[2].uuid} \subseteq active_agents

\* C9 (as claimed): the rate handed to the engine is min(requested, maximum)
\* whenever a rate is requested, the maximum when none is, and never above
\* the maximum.
C9_RateIsMin ==
    probe_pc \in {"configured", "done"} =>
        /\ probing_rate # <<>> =>
              config.probing_rate = IF probing_rate[1] <= AGENT_MAX_PROBING_RATE
                                    THEN probing_rate[1]
                                    ELSE AGENT_MAX_PROBING_RATE
        /\ probing_rate = <<>> => config.probing_rate = AGENT_MAX_PROBING_RATE
        /\ config.probing_rate <= AGENT_MAX_PROBING_RATE

\* C9 (amended): the rate handed to the engine is min(requested, maximum)
\* when a non-zero rate is requested, the maximum when none or a rate of 0 is
\* requested, and never above the maximum.
C9_RateCapped ==
    probe_pc \in {"configured", "done"} =>
        /\ (probing_rate # <<>> /\ probing_rate[1] # 0) =>
              config.probing_rate = IF probing_rate[1] <= AGENT_MAX_PROBING_RATE
                                    THEN probing_rate[1]
                                    ELSE AGENT_MAX_PROBING_RATE
        /\ (probing_rate = <<>> \/ probing_rate = <<0>>) =>
              config.probing_rate = AGENT_MAX_PROBING_RATE
        /\ config.probing_rate <= AGENT_MAX_PROBING_RATE

C9_Witness ==
    /\ probe_pc = "done"
    /\ probing_rate # <<>>
    /\ probing_rate[1] > AGENT_MAX_PROBING_RATE
    /\ config.probing_rate = AGENT_MAX_PROBING_RATE

\* C10: every key of the view has the value of the highest layer holding it,
\* specific over measurement over physical, a key of no layer is not in the
\* view, and agent_uuid is the identity given at construction even when a
\* layer defines agent_uuid too; attribute lookup gives the same values.
C10_Precedence ==
    params_pc = "built" =>
        /\ \A k \in ParamKeys :
              IF k = "agent_uuid"
              THEN k \in DOMAIN dataclass /\ dataclass[k] = agent_uuid_arg
              ELSE IF k \in DOMAIN specific_parameters
              THEN k \in DOMAIN dataclass /\ dataclass[k] = specific_parameters[k]
              ELSE IF k \in DOMAIN measurement_parameters
              THEN k \in DOMAIN dataclass /\ dataclass[k] = measurement_parameters[k]
              ELSE IF k \in DOMAIN physical_parameters
              THEN k \in DOMAIN dataclass /\ dataclass[k] = physical_parameters[k]
              ELSE k \notin DOMAIN dataclass
        /\ looked_up # None =>
              IF looked_up \in DOMAIN dataclass
              THEN lookup = [error |-> None, value |-> dataclass[looked_up]]
              ELSE lookup.error = "AttributeError"

C10_Witness ==
    /\ params_pc = "built"
    /\ "user" \in DOMAIN specific_parameters
    /\ "user" \in DOMAIN measurement_parameters
    /\ "user" \in DOMAIN physical_parameters
    /\ specific_parameters["user"] # measurement_parameters["user"]
    /\ specific_parameters["user"] # physical_parameters["user"]
    /\ "agent_uuid" \in DOMAIN specific_parameters
    /\ specific_parameters["agent_uuid"] # agent_uuid_arg
    /\ looked_up = "user"
    /\ lookup = [error |-> None, value |-> specific_parameters["user"]]

\* C11 (as stated): a results read by the owner for an agent that participated,
\* whose result table does not exist, is answered with the empty page.
C11_EmptyPageForParticipant ==
    (res_pc = "done" /\ MeasurementsGet(res_user) # None /\ res_stored # None
        /\ ~table_exists)
    => res_resp = EmptyPage

\* C11: a results read by the owner for an agent that participated and whose
\* stored state is finished, when the result table does not exist, is answered
\* with the empty page (count 0, no results) and not an error; while the stored
\* state is not finished the read is answered 412 whether or not the table exists.
C11_EmptyPageWhenFinished ==
    (res_pc = "done" /\ MeasurementsGet(res_user) # None /\ res_stored # None)
    => /\ (res_stored = "finished" /\ ~table_exists)
            => (res_resp = EmptyPage /\ res_resp.count = 0 /\ res_resp.results = <<>>)
       /\ res_stored # "finished" => res_resp = ResNotFinished

C11_Witness ==
    /\ res_pc = "done"
    /\ MeasurementsGet(res_user) # None
    /\ res_stored = "finished"
    /\ ~table_exists
    /\ res_resp = EmptyPage

\* C12 (as stated): verify_target_file accepts a file exactly when it is
\* non-empty and every line has the form target,protocol,min_ttl,max_ttl with
\* target a valid network or address, protocol one of icmp, icmp6, udp,
\* 0 < min_ttl <= 255 and 0 < max_ttl <= 255.
C12_AcceptsExactlyWellFormed ==
    tf_pc = "done" =>
        (tf_result = "True" <=>
            /\ Len(targets_file) > 0
            /\ \A i \in 1..Len(targets_file) :
                 LET line == targets_file[i]
                 IN  /\ Len(line) = 4
                     /\ line[1] \in NetworkTexts
                     /\ line[2] \in {"icmp", "icmp6", "udp"}
                     /\ IsInt(line[3]) /\ 0 < IntOf(line[3]) /\ IntOf(line[3]) <= 255
                     /\ IsInt(line[4]) /\ 0 < IntOf(line[4]) /\ IntOf(line[4]) <= 255)

\* C13 (as stated): once the view is built, no change to the input layer
\* mappings and no change made through the mapping returned by dict() alters
\* the value the view resolves for any key.
C13_ViewImmutable ==
    [][params_pc = "built" =>
          \A k \in ParamKeys : GetAttr(dataclass', k) = GetAttr(dataclass, k)]_vars

\* C14: the engine input is chosen by the round number alone: round 1 feeds
\* the generated probe stream (the generator is invoked, the probes file is
\* not the input); a round greater than 1 feeds the probes file and never
\* invokes the generator; in both cases the meta-round tag reads as the round
\* number.
C14_InputByRound ==
    /\ probe_pc \in {"configured", "done"} =>
          (IsInt(config.meta_round) /\ IntOf(config.meta_round) = round_number)
    /\ probe_pc = "done" =>
          /\ round_number = 1 => (engine_input = "generator" /\ generator_calls = 1)
          /\ round_number > 1 => (engine_input = "probes_file" /\ generator_calls = 0)

C14_Witness ==
    /\ probe_pc = "done"
    /\ round_number > 1
    /\ engine_input = "probes_file"
    /\ generator_calls = 0
    /\ config.meta_round = Str(round_number)

\* C15 (as stated): the exclusion-prefix filter is installed on the engine
\* configuration exactly when an exclusion file path is configured.
C15_FilterIffConfigured ==
    probe_pc \in {"configured", "done"} =>
        (config.filter_installed <=> AGENT_PROBER_EXCLUDE_PATH # None)

\* C16: a cancel request from a user who does not own the measurement is
\* answered not-found without reading or deleting the liveness key; when no
\* request comes from the owner the key stays present until finalization and
\* no probing process is ever killed.
C16_NonOwnerCancelHarmless ==
    /\ \A r \in Requests : cuser[r] # Owner =>
          /\ cpc[r] \in {"get", "done"}
          /\ cstate[r] = "unread"
          /\ cdeleted[r] = None
          /\ cpc[r] = "done" => cresp[r] = NotFound
    /\ (\A r \in Requests : cuser[r] # Owner) =>
          /\ end_time = None => measurement_state # None
          /\ \A a \in Agents : kills[a] = 0

C16_Witness ==
    \E r \in Requests :
        /\ cuser[r] # Owner
        /\ cpc[r] = "done"
        /\ cresp[r] = NotFound
        /\ measurement_state # None
        /\ \E a \in Agents : alive[a]

\* C17: when the liveness key is absent at the read, get_measurement_by_uuid
\* reports the measurement and every agent as finished, whatever the stored
\* agent states and end_time, get_measurements reports the measurement as
\* finished, and no step of either endpoint changes the stored states, the
\* end time or the key.
C17_AbsentKeyReportedFinished ==
    /\ [](/\ (ipc = "done" /\ iresp = "200" /\ istate = None) =>
                (ireported = "finished" /\ \A a \in Agents : iagents[a] = "finished")
          /\ lstate = None => lreported = "finished")
    /\ [][Info => UNCHANGED <<measurement_state, agent_state, end_time>>]_vars

C17_Witness ==
    /\ ipc = "done"
    /\ iresp = "200"
    /\ istate = None
    /\ end_time = None
    /\ lreported = "finished"
    /\ \E a \in Agents : agent_state[a] = "ongoing" /\ iagents[a] = "finished"

\* C18: under fair scheduling of the watcher's steps, once the supervised
\* process is not alive the watcher returns, and once the liveness key is
\* removed a watcher that has a store returns; a watcher that returned True
\* found the process not alive, and one that returned False has called kill.
C18_WatcherReturns ==
    /\ \A a \in Agents : (~alive[a]) ~> (wpc[a] = "done")
    /\ \A a \in Agents : (redis[a] /\ measurement_state = None) ~> (wpc[a] = "done")
    /\ [](\A a \in Agents :
            /\ wret[a] = "True" => ~alive[a]
            /\ wret[a] = "False" => kills[a] >= 1)

C18_Witness ==
    \E a \in Agents :
        /\ redis[a]
        /\ measurement_state = None
        /\ wpc[a] = "done"
        /\ wret[a] = "False"
        /\ kills[a] = 1

====
